---- MODULE Spec2Model ----
(***************************************************************************)
(* cozy-fuse, cozyfuse/couchmount.py: the FUSE callback surface            *)
(* (CouchFSDocument) over a CouchDB-resident tree of Folder / File /       *)
(* Binary documents, with its attribute, listing, file-size and binary     *)
(* caches.                                                                 *)
(*                                                                         *)
(* Strings that the code takes apart (paths) are sequences of one-         *)
(* character strings.  An optional value (Python None, a missing dict     *)
(* key) is a sequence of length 0 or 1.                                    *)
(*                                                                         *)
(* mount() sets fs.multithreaded = 0 (line 668): the runtime dispatches    *)
(* one callback at a time, so every callback is one atomic action.         *)
(***************************************************************************)
EXTENDS Integers, Sequences, FiniteSets, TLC

VARIABLES
    db,                     \* the backing store: Folder and File documents
    now,                    \* wall clock, in seconds
    attr_cache,             \* self.attr_cache
    readdir_file_cache,     \* self.readdir_file_cache
    readdir_folder_cache,   \* self.readdir_folder_cache
    file_size_cache,        \* self.file_size_cache
    binary_cache,           \* self.binary_cache: locally materialized binaries
    writeBuffers,           \* self.writeBuffers
    replications,           \* number of calls of _replicate_from_local
    fetched,                \* history: per path, the fetches of its binary
                            \* since the file's document last changed
    last                    \* the last callback: its arguments and what it returned

vars == <<db, now, attr_cache, readdir_file_cache, readdir_folder_cache,
          file_size_cache, binary_cache, writeBuffers, replications, fetched,
          last>>

caches == <<attr_cache, readdir_file_cache, readdir_folder_cache,
            file_size_cache, binary_cache>>

----------------------------------------------------------------------------
(* Program constants *)

ENOENT == 2
EACCES == 13
ATTR_VALIDITY_PERIOD == 10
S_IFDIR == 16384
S_IFREG == 32768
MODE_DIR == 509
MODE_FILE == 436
DEFAULT_SIZE == 4096
BLOCK_SIZE == 1000
multithreaded == 0

(* Bounds of the model *)

MaxTicks == 2       \* how many times the clock advances
MaxRev == 2         \* revisions of the file's binary
MaxSize == 2        \* largest size argument of read
MaxOffset == 2      \* largest offset argument of read
MaxLen == 6         \* longest path string given to _normalize_path

TickStep == ATTR_VALIDITY_PERIOD \div 2

Min(a, b) == IF a < b THEN a ELSE b

----------------------------------------------------------------------------
(* Paths *)

Slash == "/"

\* str.split(sep): the pieces between the separators, empty pieces included
RECURSIVE split(_, _)
split(s, sep) ==
    IF \A i \in 1..Len(s) : s[i] # sep
    THEN <<s>>
    ELSE LET i == CHOOSE k \in 1..Len(s) :
                      s[k] = sep /\ \A j \in 1..(k - 1) : s[j] # sep
         IN  <<SubSeq(s, 1, i - 1)>> \o split(SubSeq(s, i + 1, Len(s)), sep)

\* sep.join(parts)
RECURSIVE join(_, _)
join(parts, sep) ==
    IF Len(parts) = 0 THEN <<>>
    ELSE IF Len(parts) = 1 THEN parts[1]
    ELSE parts[1] \o <<sep>> \o join(Tail(parts), sep)

\* the normalization without line 629: the empty parts stay
_normalize_path_keep_empty(path) ==
    LET joined == join(split(path, Slash), Slash)
    IN  IF Len(joined) = 0 THEN <<>> ELSE <<Slash>> \o joined

_normalize_path(path) ==
    LET parts == SelectSeq(split(path, Slash), LAMBDA part : part # <<>>)
        joined == join(parts, Slash)
    IN  IF Len(joined) = 0 THEN <<>> ELSE <<Slash>> \o joined

ROOT == <<"/">>
PATH_D == <<"/", "d">>
PATH_F == <<"/", "f">>

\* the path arguments the runtime passes to the callbacks
CallPaths == {ROOT, PATH_D, PATH_F}

\* the path arguments of readdir: the directories
ReaddirPaths == {ROOT, PATH_D}

\* the path arguments of read: the files
ReadPaths == {PATH_F}

NormPaths == {_normalize_path(p) : p \in CallPaths}

\* the strings _normalize_path is tried on: every string of up to MaxLen
\* characters over '/', 'a' and 'b'
PathChars == {Slash, "a", "b"}
PathStrings == UNION {[1..n -> PathChars] : n \in 0..MaxLen}

\* '/d/': a path argument that is not in normal form
PATH_D_SLASH == <<"/", "d", "/">>

\* the path arguments of a caller that does not normalize them first
RawPaths == CallPaths \cup {PATH_D_SLASH}

\* every key a cache can be asked for: the arguments and their normal forms
CacheKeys == RawPaths \cup {_normalize_path(p) : p \in RawPaths}

----------------------------------------------------------------------------
(* The backing store.  dbutils and the CouchDB views are not part of the   *)
(* source at hand; they are modelled from the resolver contract: index     *)
(* lookups keyed on the full path or on the parent path.                   *)

\* a date string as the store holds it: its layout and the instant it names
DATE_FORMATS == {"%Y-%m-%dT%H:%M:%S", "%Y-%m-%dT%H:%M:%S.%fZ",
                 "%a %b %d %Y %H:%M:%S", "%a %b %d %H:%M:%S %Y"}

DateString(fmt, epoch) == [fmt |-> fmt, epoch |-> epoch]

\* get_date: parse with the first layout that fits, then calendar.timegm;
\* <<>> is the ValueError of a string that fits no layout
get_date(ctime) ==
    IF ctime.fmt = "%Y-%m-%dT%H:%M:%S" THEN <<ctime.epoch>>
    ELSE IF ctime.fmt = "%Y-%m-%dT%H:%M:%S.%fZ" THEN <<ctime.epoch>>
    ELSE IF ctime.fmt = "%a %b %d %Y %H:%M:%S" THEN <<ctime.epoch>>
    ELSE IF ctime.fmt = "%a %b %d %H:%M:%S %Y" THEN <<ctime.epoch>>
    ELSE <<>>

\* the bytes of revision rev of the file's binary: rev bytes
BinaryContent(rev) == [i \in 1..rev |-> 10 * rev + i]

\* the Folder document of /d, with or without a lastModification field
FolderDoc(lm) == [path |-> <<>>, name |-> <<"d">>, lastModification |-> lm]

\* the File document of /f whose binary is at revision rev
FileDoc(rev) ==
    [path |-> <<>>, name |-> <<"f">>,
     size |-> <<Len(BinaryContent(rev))>>,
     lastModification |-> <<DateString("%Y-%m-%dT%H:%M:%S.%fZ", 100 * rev)>>,
     binary |-> [id |-> 1, rev |-> rev]]

FolderSets == {{}, {FolderDoc(<<>>)},
               {FolderDoc(<<DateString("%Y-%m-%dT%H:%M:%S", 50)>>)}}

FileSets == {{}} \cup {{FileDoc(rev)} : rev \in 1..MaxRev}

DbStates == {[folders |-> fs, files |-> gs] : fs \in FolderSets, gs \in FileSets}

\* a File document inside the folder /d: its parent path is '/d'
NestedFile(rev) == [FileDoc(rev) EXCEPT !.path = PATH_D]

\* stores where the folder /d holds a file, with or without a file at the
\* root beside it
NestedStates ==
    {[folders |-> {FolderDoc(<<>>)}, files |-> gs] :
         gs \in {{NestedFile(1)}, {FileDoc(1), NestedFile(1)}}}

\* a Folder document with the full path of the file: /f is then both a
\* folder and a file (the store does not keep full paths unique)
ClashFolder(lm) == [FolderDoc(lm) EXCEPT !.name = <<"f">>]

ClashStates ==
    {[folders |-> {ClashFolder(lm)}, files |-> {FileDoc(rev)}] :
         lm \in {<<>>, <<DateString("%a %b %d %Y %H:%M:%S", 70)>>},
         rev \in 1..MaxRev}

FullPath(doc) == doc.path \o <<Slash>> \o doc.name

\* the rows of a view, in the order the store returns them
RECURSIVE Rows(_)
Rows(docs) ==
    IF docs = {} THEN <<>>
    ELSE LET d == CHOOSE x \in docs : TRUE IN <<d>> \o Rows(docs \ {d})

view_file_byFolder(store, key) == Rows({d \in store.files : d.path = key})
view_folder_byFolder(store, key) == Rows({d \in store.folders : d.path = key})
view_file_byFullPath(store, key) == Rows({d \in store.files : FullPath(d) = key})
view_folder_byFullPath(store, key) ==
    Rows({d \in store.folders : FullPath(d) = key})

\* dbutils.get_folder / get_file: the first row, or None
first_row(res) == IF Len(res) > 0 THEN <<res[1]>> ELSE <<>>

get_folder(store, path) == first_row(view_folder_byFullPath(store, path))

get_file(store, path) == first_row(view_file_byFullPath(store, path))

----------------------------------------------------------------------------
(* cache.Cache: key -> (value, insertion time).  Not part of the source at *)
(* hand; modelled from the TTL cache contract.  NO_TTL is a cache built    *)
(* with no validity period.                                                *)

NO_TTL == -1

EmptyCache(keys) == [k \in keys |-> <<>>]

\* get: the value, or None when the key is absent or its entry is too old
cache_get(c, ttl, key, time) ==
    IF c[key] = <<>> THEN <<>>
    ELSE IF ttl # NO_TTL /\ time - c[key][1].time >= ttl THEN <<>>
    ELSE <<c[key][1].value>>

\* add: overwrite the entry and reset its insertion time
cache_add(c, key, value, time) ==
    [c EXCEPT ![key] = <<[value |-> value, time |-> time]>>]

----------------------------------------------------------------------------
(* What a callback hands back to the runtime.                              *)
(*   kind "int"     : an integer (0, or an errno code), in code            *)
(*   kind "stat"    : an attribute descriptor, val = <<st>>                *)
(*   kind "data"    : bytes, in val                                        *)
(*   kind "entries" : a listing consumed to its end, in val                *)
(*   kind "statvfs" : filesystem statistics, val = <<st>>                  *)
(*   kind "raise"   : an exception left the callback; val = what a         *)
(*                    generator had yielded before                        *)

RetInt(n) == [kind |-> "int", code |-> n, val |-> <<>>]
RetStat(st) == [kind |-> "stat", code |-> 0, val |-> <<st>>]
RetData(buf) == [kind |-> "data", code |-> 0, val |-> buf]
RetEntries(es) == [kind |-> "entries", code |-> 0, val |-> es]
RetStatVfs(st) == [kind |-> "statvfs", code |-> 0, val |-> <<st>>]
RetRaise(es) == [kind |-> "raise", code |-> 0, val |-> es]

\* the record of a callback: queries = store queries issued, fetches =
\* binary contents fetched, acquired = binary handles the call acquired,
\* held = those it still holds on return
Call(op, path, ret, queries, fetches) ==
    [op |-> op, path |-> path, ret |-> ret, queries |-> queries,
     fetches |-> fetches, size |-> 0, offset |-> 0, found |-> "none",
     acquired |-> 0, held |-> 0]

\* how a lookup found the cache: "absent", "expired" or "fresh"
Found(c, ttl, key, time) ==
    IF c[key] = <<>> THEN "absent"
    ELSE IF ttl # NO_TTL /\ time - c[key][1].time >= ttl THEN "expired"
    ELSE "fresh"

----------------------------------------------------------------------------
(* getattr *)

\* CouchStat(): the default file descriptor (owner ids are the process's)
CouchStat ==
    [st_mode |-> 0, st_ino |-> 0, st_dev |-> 0, st_nlink |-> 0,
     st_size |-> DEFAULT_SIZE, st_atime |-> 0, st_mtime |-> 0, st_ctime |-> 0,
     st_blocks |-> 0]

WithTimes(st, t) == [st EXCEPT !.st_atime = t, !.st_ctime = t, !.st_mtime = t]

\* lines 196-201: the descriptor of a Folder document; <<>> when get_date raises
FolderStat(folder) ==
    LET st == [CouchStat EXCEPT !.st_mode = S_IFDIR + MODE_DIR, !.st_nlink = 2]
    IN  IF folder.lastModification = <<>> THEN <<st>>
        ELSE LET t == get_date(folder.lastModification[1])
             IN  IF t = <<>> THEN <<>> ELSE <<WithTimes(st, t[1])>>

\* lines 208-215: the descriptor of a File document
FileStat(file_doc) ==
    LET st == [CouchStat EXCEPT
                   !.st_mode = S_IFREG + MODE_FILE, !.st_nlink = 1,
                   !.st_size = IF file_doc.size = <<>> THEN DEFAULT_SIZE
                               ELSE file_doc.size[1]]
    IN  IF file_doc.lastModification = <<>> THEN <<st>>
        ELSE LET t == get_date(file_doc.lastModification[1])
             IN  IF t = <<>> THEN <<>> ELSE <<WithTimes(st, t[1])>>

\* the miss body without the branch for the root: '/' is looked up in the
\* store like any other path
getattr_miss_root_in_store(path, store, failAt) ==
    IF failAt = 1 THEN [st |-> <<>>, queries |-> 1]
    ELSE LET folder == get_folder(store, path)
         IN  IF folder # <<>>
             THEN [st |-> FolderStat(folder[1]), queries |-> 1]
             ELSE IF failAt = 2 THEN [st |-> <<>>, queries |-> 2]
             ELSE LET file_doc == get_file(store, path)
                  IN  IF file_doc # <<>>
                      THEN [st |-> FileStat(file_doc[1]), queries |-> 2]
                      ELSE [st |-> <<CouchStat>>, queries |-> 2]

\* the miss body with the two lookups in the other order: file, then folder
getattr_miss_file_first(path, store, failAt) ==
    IF path = ROOT
    THEN [st |-> <<[CouchStat EXCEPT !.st_mode = S_IFDIR + MODE_DIR,
                                     !.st_nlink = 2]>>,
          queries |-> 0]
    ELSE IF failAt = 1 THEN [st |-> <<>>, queries |-> 1]
    ELSE LET file_doc == get_file(store, path)
         IN  IF file_doc # <<>>
             THEN [st |-> FileStat(file_doc[1]), queries |-> 1]
             ELSE IF failAt = 2 THEN [st |-> <<>>, queries |-> 2]
             ELSE LET folder == get_folder(store, path)
                  IN  IF folder # <<>>
                      THEN [st |-> FolderStat(folder[1]), queries |-> 2]
                      ELSE [st |-> <<CouchStat>>, queries |-> 2]

\* lines 184-219, the body run on a cache miss.  failAt = k > 0: the k-th
\* store query of the call raises.  The outcome: st = <<descriptor>> to add to
\* the cache and return, or <<>> when an exception ended the body.
getattr_miss(path, store, failAt) ==
    IF path = ROOT
    THEN [st |-> <<[CouchStat EXCEPT !.st_mode = S_IFDIR + MODE_DIR,
                                     !.st_nlink = 2]>>,
          queries |-> 0]
    ELSE IF failAt = 1 THEN [st |-> <<>>, queries |-> 1]
    ELSE LET folder == get_folder(store, path)
         IN  IF folder # <<>>
             THEN [st |-> FolderStat(folder[1]), queries |-> 1]
             ELSE IF failAt = 2 THEN [st |-> <<>>, queries |-> 2]
             ELSE LET file_doc == get_file(store, path)
                  IN  IF file_doc # <<>>
                      THEN [st |-> FileStat(file_doc[1]), queries |-> 2]
                      ELSE [st |-> <<CouchStat>>, queries |-> 2]

\* getattr with the cache lookup's answer ignored: it always resolves anew
getattr_outcome_uncached(path, cached, store, failAt) ==
    LET m == getattr_miss(path, store, failAt)
    IN  IF m.st = <<>>
        THEN [ret |-> RetInt(-ENOENT), add |-> <<>>, queries |-> m.queries]
        ELSE [ret |-> RetStat(m.st[1]), add |-> m.st, queries |-> m.queries]

\* getattr with the add of line 219 moved into a 'finally': the descriptor
\* built so far (line 184) is cached also when a store query raised
getattr_outcome_caching_failure(path, cached, store, failAt) ==
    IF cached # <<>>
    THEN [ret |-> RetStat(cached[1]), add |-> <<>>, queries |-> 0]
    ELSE LET m == getattr_miss(path, store, failAt)
         IN  IF m.st = <<>>
             THEN [ret |-> RetInt(-ENOENT), add |-> <<CouchStat>>,
                   queries |-> m.queries]
             ELSE [ret |-> RetStat(m.st[1]), add |-> m.st, queries |-> m.queries]

\* lines 181-224: what getattr returns, the entry it adds and the store
\* queries it issues, given what attr_cache.get(path) returned
getattr_outcome(path, cached, store, failAt) ==
    IF cached # <<>>
    THEN [ret |-> RetStat(cached[1]), add |-> <<>>, queries |-> 0]
    ELSE LET m == getattr_miss(path, store, failAt)
         IN  IF m.st = <<>>
             THEN [ret |-> RetInt(-ENOENT), add |-> <<>>, queries |-> m.queries]
             ELSE [ret |-> RetStat(m.st[1]), add |-> m.st, queries |-> m.queries]

getattr(path, failAt) ==
    LET cached == cache_get(attr_cache, ATTR_VALIDITY_PERIOD, path, now)
    IN  \* only a query that the call issues can raise
        /\ failAt <= getattr_outcome(path, cached, db, 0).queries
        /\ \E o \in {getattr_outcome(path, cached, db, failAt)} :
            /\ attr_cache' = IF o.add = <<>> THEN attr_cache
                             ELSE cache_add(attr_cache, path, o.add[1], now)
            /\ last' = [Call("getattr", path, o.ret, o.queries, 0) EXCEPT
                            !.found = Found(attr_cache, ATTR_VALIDITY_PERIOD,
                                            path, now)]
            /\ UNCHANGED <<db, now, readdir_file_cache, readdir_folder_cache,
                           file_size_cache, binary_cache, writeBuffers,
                           replications, fetched>>

----------------------------------------------------------------------------
(* readdir *)

DOT == <<".">>
DOTDOT == <<".", ".">>

\* the names a listing yields, in order: doc.value['name'] of each row
RECURSIVE Names(_)
Names(rows) ==
    IF Len(rows) = 0 THEN <<>> ELSE <<rows[1].name>> \o Names(Tail(rows))

\* readdir with its two listing loops in the other order: folders, then files
readdir_outcome_folders_first(path, fcached, dcached, store, failAt) ==
    LET dots == <<DOT, DOTDOT>>
        fres == IF fcached = <<>> THEN view_file_byFolder(store, path)
                ELSE fcached[1]
        dres == IF dcached = <<>> THEN view_folder_byFolder(store, path)
                ELSE dcached[1]
    IN  [ret |-> RetEntries(dots \o Names(dres) \o Names(fres)),
         addFile |-> IF fcached = <<>> THEN <<fres>> ELSE <<>>,
         addFolder |-> IF dcached = <<>> THEN <<dres>> ELSE <<>>,
         queries |-> (IF fcached = <<>> THEN 1 ELSE 0)
                     + (IF dcached = <<>> THEN 1 ELSE 0)]

\* readdir without its second loop: the file listing only
readdir_outcome_files_only(path, fcached, dcached, store, failAt) ==
    LET dots == <<DOT, DOTDOT>>
        fres == IF fcached = <<>> THEN view_file_byFolder(store, path)
                ELSE fcached[1]
    IN  [ret |-> RetEntries(dots \o Names(fres)),
         addFile |-> IF fcached = <<>> THEN <<fres>> ELSE <<>>,
         addFolder |-> <<>>,
         queries |-> IF fcached = <<>> THEN 1 ELSE 0]

\* readdir with 'if not res' in place of 'if res is None' (lines 161, 168):
\* a cached listing that is empty counts as a miss and is queried again
readdir_outcome_empty_is_miss(path, fcached, dcached, store, failAt) ==
    LET dots == <<DOT, DOTDOT>>
        fmiss == fcached = <<>> \/ fcached[1] = <<>>
        dmiss == dcached = <<>> \/ dcached[1] = <<>>
        fq == IF fmiss THEN 1 ELSE 0
        dq == IF dmiss THEN 1 ELSE 0
    IN  IF fq = 1 /\ failAt = 1
        THEN [ret |-> RetRaise(dots), addFile |-> <<>>, addFolder |-> <<>>,
              queries |-> 1]
        ELSE LET fres == IF fmiss THEN view_file_byFolder(store, path)
                         ELSE fcached[1]
                 fadd == IF fmiss THEN <<fres>> ELSE <<>>
                 files == dots \o Names(fres)
             IN  IF dq = 1 /\ failAt = fq + 1
                 THEN [ret |-> RetRaise(files), addFile |-> fadd,
                       addFolder |-> <<>>, queries |-> fq + 1]
                 ELSE LET dres == IF dmiss
                                  THEN view_folder_byFolder(store, path)
                                  ELSE dcached[1]
                      IN  [ret |-> RetEntries(files \o Names(dres)),
                           addFile |-> fadd,
                           addFolder |-> IF dmiss THEN <<dres>> ELSE <<>>,
                           queries |-> fq + dq]

\* lines 153-172, the generator consumed to its end.  fcached and dcached are
\* what the two listing caches returned; failAt = k > 0: the k-th store query
\* the call issues raises.  No handler surrounds the queries: the exception
\* leaves the generator after what it has yielded so far.
readdir_outcome(path, fcached, dcached, store, failAt) ==
    LET dots == <<DOT, DOTDOT>>
        fq == IF fcached = <<>> THEN 1 ELSE 0
        dq == IF dcached = <<>> THEN 1 ELSE 0
    IN  IF fq = 1 /\ failAt = 1
        THEN [ret |-> RetRaise(dots), addFile |-> <<>>, addFolder |-> <<>>,
              queries |-> 1]
        ELSE LET fres == IF fcached = <<>> THEN view_file_byFolder(store, path)
                         ELSE fcached[1]
                 fadd == IF fcached = <<>> THEN <<fres>> ELSE <<>>
                 files == dots \o Names(fres)
             IN  IF dq = 1 /\ failAt = fq + 1
                 THEN [ret |-> RetRaise(files), addFile |-> fadd,
                       addFolder |-> <<>>, queries |-> fq + 1]
                 ELSE LET dres == IF dcached = <<>>
                                  THEN view_folder_byFolder(store, path)
                                  ELSE dcached[1]
                      IN  [ret |-> RetEntries(files \o Names(dres)),
                           addFile |-> fadd,
                           addFolder |-> IF dcached = <<>> THEN <<dres>>
                                         ELSE <<>>,
                           queries |-> fq + dq]

readdir(p, failAt) ==
    \E path \in {_normalize_path(p)} :
    \E fcached \in {cache_get(readdir_file_cache, ATTR_VALIDITY_PERIOD,
                               path, now)} :
    \E dcached \in {cache_get(readdir_folder_cache, ATTR_VALIDITY_PERIOD,
                               path, now)} :
        \* only a query that the call issues can raise
        /\ failAt <= readdir_outcome(path, fcached, dcached, db, 0).queries
        /\ \E o \in {readdir_outcome(path, fcached, dcached, db, failAt)} :
            /\ readdir_file_cache' =
                   IF o.addFile = <<>> THEN readdir_file_cache
                   ELSE cache_add(readdir_file_cache, path, o.addFile[1], now)
            /\ readdir_folder_cache' =
                   IF o.addFolder = <<>> THEN readdir_folder_cache
                   ELSE cache_add(readdir_folder_cache, path, o.addFolder[1], now)
            /\ last' = Call("readdir", p, o.ret, o.queries, 0)
            /\ UNCHANGED <<db, now, attr_cache, file_size_cache, binary_cache,
                           writeBuffers, replications, fetched>>

----------------------------------------------------------------------------
(* open *)

\* open that accepts a record of either index: a Folder record opens too
open_outcome_any_record(path, store, failAt) ==
    IF failAt = 1 THEN RetInt(-ENOENT)
    ELSE IF Len(view_file_byFullPath(store, path)) > 0 THEN RetInt(0)
    ELSE IF Len(view_folder_byFullPath(store, path)) > 0 THEN RetInt(0)
    ELSE RetInt(-ENOENT)

\* lines 233-245
open_outcome(path, store, failAt) ==
    IF failAt = 1 THEN RetInt(-ENOENT)
    ELSE IF Len(view_file_byFullPath(store, path)) > 0 THEN RetInt(0)
    ELSE RetInt(-ENOENT)

open(p, failAt) ==
    /\ last' = Call("open", p, open_outcome(_normalize_path(p), db, failAt), 1, 0)
    /\ UNCHANGED <<db, now, caches, writeBuffers, replications, fetched>>

----------------------------------------------------------------------------
(* binarycache.BinaryCache: path -> the local copy of the file's binary.   *)
(* Not part of the source at hand; modelled from the binary content cache  *)
(* contract: a local copy is valid for the content revision it was fetched *)
(* at, and a changed revision invalidates it by revision comparison.       *)

\* whether the local copy of path is of the revision file_doc refers to
copy_is_current(bc, path, file_doc) ==
    /\ file_doc # <<>>
    /\ bc[path] # <<>>
    /\ bc[path][1].rev = file_doc[1].binary.rev

\* is_cached(path): a local copy exists and is of the file's current revision
binary_is_cached(bc, store, path) ==
    copy_is_current(bc, path, get_file(store, path))

\* the cache with the binary that file_doc refers to stored under path;
\* <<>> when there is no file
copy_fetched(bc, path, file_doc) ==
    IF file_doc = <<>> THEN <<>>
    ELSE <<[bc EXCEPT ![path] =
                <<[rev |-> file_doc[1].binary.rev,
                   content |-> BinaryContent(file_doc[1].binary.rev)]>>]>>

\* add(path): fetch the binary of the file's current revision and store it
\* locally; <<>> when there is no such file
binary_add(bc, store, path) == copy_fetched(bc, path, get_file(store, path))

\* get(path): a handle on the local copy
binary_get(bc, path) == bc[path][1].content

----------------------------------------------------------------------------
(* read *)

\* file.seek(offset); file.read(size)
FileRead(content, offset, size) ==
    SubSeq(content, offset + 1, Min(offset + size, Len(content)))

\* lines 264-276: the bytes handed back and the length added to
\* file_size_cache, given the handle's content and what file_size_cache.get
\* returned
read_clamp(content, lencached, size, offset) ==
    LET content_length == IF lencached = <<>> THEN Len(content)
                          ELSE lencached[1]
        sz == IF offset + size > content_length THEN content_length - offset
              ELSE size
    IN  [buf |-> IF offset < content_length THEN FileRead(content, offset, sz)
                 ELSE <<>>,
         addSize |-> IF lencached = <<>> THEN <<Len(content)>> ELSE <<>>]

\* read with the is_cached test dropped: it always calls binary_cache.add
read_must_add_always(bc, store, path) == TRUE

\* line 259: whether read calls binary_cache.add
read_must_add(bc, store, path) == ~binary_is_cached(bc, store, path)

\* the with statement whose exit releases the handle only when the block
\* ends without an exception
with_exit_on_return_only(handles, raised) == IF raised THEN handles ELSE 0

\* line 262, the with statement: the handles still held once the block is
\* left, by its end or by an exception
with_exit(handles, raised) == 0

\* the places where a read can fail: 1 the store query of is_cached, 2 the
\* fetch of add, 3 fstat on the handle, 4 seek, 5 read of the handle; the
\* set is those that this call reaches
read_fail_points(path, offset, bc, lencached, store) ==
    LET add == read_must_add(bc, store, path)
        added == IF add THEN binary_add(bc, store, path) ELSE <<bc>>
    IN  {1} \cup (IF add THEN {2} ELSE {})
            \cup (IF added = <<>> THEN {}
                  ELSE LET content_length ==
                               IF lencached = <<>>
                               THEN Len(binary_get(added[1], path))
                               ELSE lencached[1]
                       IN  (IF lencached = <<>> THEN {3} ELSE {})
                               \cup (IF offset < content_length THEN {4, 5}
                                     ELSE {}))

\* lines 255-282.  failAt names the place that raises (0: none).  Every
\* exception is caught and turned into -ENOENT; what was added to a cache
\* before it stays.
read_outcome(path, size, offset, bc, lencached, store, failAt) ==
    LET failed(q, f) == [ret |-> RetInt(-ENOENT), bc |-> bc, addSize |-> <<>>,
                         queries |-> q, fetches |-> f, acquired |-> 0,
                         held |-> 0]
    IN  IF failAt = 1 THEN failed(1, 0)
        ELSE LET add == read_must_add(bc, store, path)
                 added == IF add THEN binary_add(bc, store, path) ELSE <<bc>>
             IN  IF add /\ (failAt = 2 \/ added = <<>>) THEN failed(2, 0)
                 ELSE LET content == binary_get(added[1], path)
                          c == read_clamp(content, lencached, size, offset)
                          content_length == IF lencached = <<>> THEN Len(content)
                                            ELSE lencached[1]
                          raised == \/ failAt = 3 /\ lencached = <<>>
                                    \/ failAt \in {4, 5} /\ offset < content_length
                      IN  [ret |-> IF raised THEN RetInt(-ENOENT)
                                   ELSE RetData(c.buf),
                           bc |-> added[1],
                           addSize |-> IF failAt = 3 THEN <<>> ELSE c.addSize,
                           queries |-> IF add THEN 2 ELSE 1,
                           fetches |-> IF add THEN 1 ELSE 0,
                           acquired |-> 1,
                           held |-> with_exit(1, raised)]

read(p, size, offset, failAt) ==
    \E path \in {_normalize_path(p)} :
    \E lencached \in {cache_get(file_size_cache, NO_TTL, path, now)} :
        \* only a place that the call reaches can raise
        /\ failAt \in {0} \cup read_fail_points(path, offset, binary_cache,
                                                lencached, db)
        /\ \E o \in {read_outcome(path, size, offset, binary_cache, lencached,
                                      db, failAt)} :
            /\ binary_cache' = o.bc
            /\ file_size_cache' =
                   IF o.addSize = <<>> THEN file_size_cache
                   ELSE cache_add(file_size_cache, path, o.addSize[1], now)
            /\ last' = [Call("read", p, o.ret, o.queries, o.fetches) EXCEPT
                            !.size = size, !.offset = offset,
                            !.acquired = o.acquired, !.held = o.held]
            /\ fetched' = [fetched EXCEPT ![path] = @ + o.fetches]
            /\ UNCHANGED <<db, now, attr_cache, readdir_file_cache,
                           readdir_folder_cache, writeBuffers, replications>>

----------------------------------------------------------------------------
(* The callbacks that do no work *)

\* a callback that only returns the integer n
returns(op, path, n) ==
    /\ last' = Call(op, path, RetInt(n), 0, 0)
    /\ UNCHANGED <<db, now, caches, writeBuffers, replications, fetched>>

\* write with the disabled body of lines 292-297 live: it buffers the data
\* under the path and reports the bytes taken
write_buffering(path) ==
    /\ writeBuffers' = writeBuffers \cup {_normalize_path(path)}
    /\ last' = Call("write", path, RetInt(1), 0, 0)
    /\ UNCHANGED <<db, now, caches, replications, fetched>>

write(path) == returns("write", path, EACCES)
mknod(path) == returns("mknod", path, EACCES)
unlink(path) == returns("unlink", path, EACCES)
mkdir(path) == returns("mkdir", path, EACCES)
rmdir(path) == returns("rmdir", path, EACCES)
rename(pathfrom, pathto) == returns("rename", pathfrom, EACCES)

\* release with the body after line 311 live: it looks the file up, and
\* the lookup of a missing file ends in the handler's -ENOENT
release_write_back(path) ==
    returns("release", path,
            IF get_file(db, _normalize_path(path)) = <<>> THEN -ENOENT ELSE 0)

release(path) == returns("release", path, 0)
\* truncate as a stub that denies permission
truncate_denying(path, size) == returns("truncate", path, -EACCES)

truncate(path, size) == returns("truncate", path, 0)
utime(path) == returns("utime", path, 0)
fsync(path) == returns("fsync", path, 0)
chmod(path) == returns("chmod", path, 0)
chown(path) == returns("chown", path, 0)

----------------------------------------------------------------------------
(* statfs *)

\* what dbutils.get_disk_space reports (the remote store's quota query)
DiskSpaces == {[totalDiskSpace |-> 2, freeDiskSpace |-> f] : f \in 0..2}

\* lines 573-596.  failed: the quota query raises; no handler surrounds it
statfs_outcome(disk_space, failed) ==
    IF failed THEN RetRaise(<<>>)
    ELSE LET blocks == disk_space.totalDiskSpace * 1000 * 1000
             blocks_free == disk_space.freeDiskSpace * 1000 * 1000
         IN  RetStatVfs([f_bsize |-> BLOCK_SIZE, f_frsize |-> BLOCK_SIZE,
                         f_blocks |-> blocks, f_bfree |-> blocks_free,
                         f_bavail |-> blocks_free, f_files |-> 0,
                         f_ffree |-> 0])

statfs(disk_space, failed) ==
    /\ last' = Call("statfs", ROOT, statfs_outcome(disk_space, failed), 1, 0)
    /\ UNCHANGED <<db, now, caches, writeBuffers, replications, fetched>>

----------------------------------------------------------------------------
(* The environment *)

\* the clock advances
Tick ==
    /\ now < MaxTicks * TickStep
    /\ now' = now + TickStep
    /\ UNCHANGED <<db, caches, writeBuffers, replications, fetched, last>>

\* the store's documents change (replication from the remote Cozy): the
\* Folder documents or the File documents are replaced
StoreChange ==
    /\ \/ \E fs \in FolderSets \ {db.folders} : db' = [db EXCEPT !.folders = fs]
       \/ \E gs \in FileSets \ {db.files} : db' = [db EXCEPT !.files = gs]
    /\ fetched' = [p \in NormPaths |->
                       IF get_file(db', p) = get_file(db, p) THEN fetched[p]
                       ELSE 0]
    /\ UNCHANGED <<now, caches, writeBuffers, replications, last>>

----------------------------------------------------------------------------
(* Specifications *)

\* lines 137-145: the caches of a freshly constructed CouchFSDocument, on
\* one of the given stores
InitOn(stores) ==
    /\ db \in stores
    /\ now = 0
    /\ attr_cache = EmptyCache(CacheKeys)
    /\ readdir_file_cache = EmptyCache(CacheKeys)
    /\ readdir_folder_cache = EmptyCache(CacheKeys)
    /\ file_size_cache = EmptyCache(CacheKeys)
    /\ binary_cache = EmptyCache(CacheKeys)
    /\ writeBuffers = {}
    /\ replications = 0
    /\ fetched = [p \in NormPaths |-> 0]
    /\ last = Call("none", ROOT, RetInt(0), 0, 0)

Init == InitOn(DbStates)

Environment == Tick \/ StoreChange

GetattrCall == \E p \in CallPaths, failAt \in 0..2 : getattr(p, failAt)

\* getattr called with any path argument, in normal form or not
GetattrRawCall == \E p \in RawPaths, failAt \in 0..2 : getattr(p, failAt)

ReaddirCall == \E p \in ReaddirPaths, failAt \in 0..2 : readdir(p, failAt)

OpenCall == \E p \in CallPaths, failAt \in 0..1 : open(p, failAt)

ReadCall ==
    \E p \in ReadPaths, size \in 0..MaxSize, offset \in 0..MaxOffset,
       failAt \in 0..5 : read(p, size, offset, failAt)

DeniedCall ==
    \E p \in CallPaths :
        \/ write(p)
        \/ mknod(p)
        \/ unlink(p)
        \/ mkdir(p)
        \/ rmdir(p)
        \/ \E q \in CallPaths : rename(p, q)

NoopCall ==
    \E p \in CallPaths :
        \/ release(p)
        \/ \E size \in 0..MaxSize : truncate(p, size)
        \/ utime(p)
        \/ fsync(p)
        \/ chmod(p)
        \/ chown(p)

ReleaseCall == \E p \in CallPaths : release(p)

StatfsCall ==
    \E disk_space \in DiskSpaces, failed \in BOOLEAN :
        statfs(disk_space, failed)

\* the seventeen callbacks
Callbacks ==
    \/ GetattrCall
    \/ ReaddirCall
    \/ OpenCall
    \/ ReadCall
    \/ DeniedCall
    \/ NoopCall
    \/ StatfsCall

Next ==
    \/ Callbacks
    \/ Environment

Spec == Init /\ [][Next]_vars

\* The callbacks touch disjoint caches (getattr: attr_cache; readdir: the two
\* listing caches; read: binary_cache and file_size_cache; the others: none),
\* so each group is also explored on its own, with the environment.

NextAttr == GetattrCall \/ Environment
SpecAttr == Init /\ [][NextAttr]_vars

NextDir == ReaddirCall \/ Environment
SpecDir == Init /\ [][NextDir]_vars

NextRead == OpenCall \/ ReadCall \/ StoreChange
SpecRead == Init /\ [][NextRead]_vars

NextStub == DeniedCall \/ NoopCall \/ Environment
SpecStub == Init /\ [][NextStub]_vars

\* getattr on stores where a path may be both a folder and a file; the
\* clock advances, the store stays
InitResolve == InitOn(DbStates \cup ClashStates)
NextResolve == GetattrCall \/ Tick
SpecResolve == InitResolve /\ [][NextResolve]_vars

\* readdir on stores where the folder /d may hold a file; the clock
\* advances, the store stays
InitList == InitOn(DbStates \cup NestedStates)
NextList == ReaddirCall \/ Tick
SpecList == InitList /\ [][NextList]_vars

\* the session of a path: open, read and release, in any order
NextSession == OpenCall \/ ReadCall \/ ReleaseCall \/ StoreChange
SpecSession == Init /\ [][NextSession]_vars

\* any sequence of callbacks, on a store that nothing else changes
\* meanwhile: the empty store, or one that holds a folder and a file
CallStores ==
    {[folders |-> {}, files |-> {}],
     [folders |-> {FolderDoc(<<DateString("%Y-%m-%dT%H:%M:%S", 50)>>)},
      files |-> {FileDoc(MaxRev)}]}

InitCalls == InitOn(CallStores)

\* read asked for MaxSize bytes from the start of the file or from MaxOffset
ReadEndsCall ==
    \E p \in ReadPaths, offset \in {0, MaxOffset}, failAt \in 0..5 :
        read(p, MaxSize, offset, failAt)

\* the seventeen callbacks, read with the arguments of ReadEndsCall
NextCalls ==
    \/ GetattrCall
    \/ ReaddirCall
    \/ OpenCall
    \/ ReadEndsCall
    \/ DeniedCall
    \/ NoopCall
    \/ StatfsCall

SpecCalls == InitCalls /\ [][NextCalls]_vars

\* _normalize_path on its own: applied to any string, and to its own result
InitNorm ==
    /\ db = [folders |-> {}, files |-> {}]
    /\ now = 0
    /\ attr_cache = EmptyCache(CacheKeys)
    /\ readdir_file_cache = EmptyCache(CacheKeys)
    /\ readdir_folder_cache = EmptyCache(CacheKeys)
    /\ file_size_cache = EmptyCache(CacheKeys)
    /\ binary_cache = EmptyCache(CacheKeys)
    /\ writeBuffers = {}
    /\ replications = 0
    /\ fetched = [p \in NormPaths |-> 0]
    /\ \E p \in PathStrings : last = Call("none", p, RetInt(0), 0, 0)

Normalize ==
    /\ \E p \in {last.path} \cup (IF last.op = "_normalize_path"
                                   THEN {last.ret.val} ELSE {}) :
           last' = Call("_normalize_path", p, RetData(_normalize_path(p)), 0, 0)
    /\ UNCHANGED <<db, now, caches, writeBuffers, replications, fetched>>

SpecNorm == InitNorm /\ [][Normalize]_vars

\* getattr with path arguments that are not in normal form
NextKey == GetattrRawCall \/ StoreChange
SpecKey == Init /\ [][NextKey]_vars

----------------------------------------------------------------------------
(* The claims *)

NotFound == RetInt(-ENOENT)
PermissionDenied == RetInt(-EACCES)

\* C1: for every non-root path that has neither a Folder nor a File record in
\* the store, getattr(path) returns -ENOENT and not an attribute descriptor,
\* whatever calls were made before it.
C1_GetattrOfMissingPathIsNotFound ==
    [][\A p \in CallPaths \ {ROOT}, failAt \in 0..2 :
           (/\ getattr(p, failAt)
            /\ get_folder(db, p) = <<>>
            /\ get_file(db, p) = <<>>) => last'.ret = NotFound]_vars

\* C2: write, mknod, unlink, mkdir, rmdir and rename return PermissionDenied
\* for any input and in any state, and leave every cache and the store
\* unchanged.
C2_MutatorsDenyAndChangeNothing ==
    [][\A p \in CallPaths :
           (\/ write(p) \/ mknod(p) \/ unlink(p) \/ mkdir(p) \/ rmdir(p)
            \/ \E q \in CallPaths : rename(p, q))
               => /\ last'.ret = PermissionDenied
                  /\ UNCHANGED <<caches, db, writeBuffers>>]_vars

\* C3: every failure a callback returns is a negative errno-style code and
\* success is 0 or data: no callback hands back a positive integer.
C3_FailuresAreNegative ==
    last.ret.kind = "int" => last.ret.code <= 0

\* C5: a store failure during getattr, open, read or readdir is caught and
\* presented as NotFound: no exception leaves a callback.
C5_NoStoreExceptionEscapes ==
    last.op \in {"getattr", "open", "read", "readdir"}
        => last.ret.kind # "raise"

\* C4: for a materialized file of content length L, read(path, size, offset)
\* returns the empty result when offset >= L, exactly L - offset bytes when
\* offset < L and offset + size > L, and otherwise exactly size bytes: the
\* content range [offset, min(offset + size, L)).
C4_ReadReturnsClampedRange ==
    (last.op = "read" /\ last.ret.kind = "data") =>
        LET content == binary_get(binary_cache, _normalize_path(last.path))
            L == Len(content)
            buf == last.ret.val
        IN  /\ last.offset >= L => buf = <<>>
            /\ (last.offset < L /\ last.offset + last.size > L)
                   => Len(buf) = L - last.offset
            /\ (last.offset < L /\ last.offset + last.size <= L)
                   => Len(buf) = last.size
            /\ buf = SubSeq(content, last.offset + 1,
                            Min(last.offset + last.size, L))

\* the descriptor of a path that is the root, a folder or a file in store
Descriptor(store, p) ==
    IF p = ROOT
    THEN [CouchStat EXCEPT !.st_mode = S_IFDIR + MODE_DIR, !.st_nlink = 2]
    ELSE IF get_folder(store, p) # <<>>
    THEN FolderStat(get_folder(store, p)[1])[1]
    ELSE FileStat(get_file(store, p)[1])[1]

Exists(store, p) ==
    p = ROOT \/ get_folder(store, p) # <<>> \/ get_file(store, p) # <<>>

\* C6: a getattr(path) issued less than ATTR_VALIDITY_PERIOD after the entry
\* of path was inserted returns the cached descriptor and issues no store
\* query; one issued once the period has elapsed resolves the path anew
\* (a store query for every path but the root), never returns the cached
\* descriptor for being cached, and when the store answers returns and caches
\* the descriptor of the store's current records.
C6_AttrCacheFreshness ==
    [][\A p \in {last'.path}, failAt \in 0..2 :
           (last'.op = "getattr" /\ getattr(p, failAt)) =>
               LET found == Found(attr_cache, ATTR_VALIDITY_PERIOD, p, now)
               IN  /\ found = "fresh" =>
                          /\ now - attr_cache[p][1].time < ATTR_VALIDITY_PERIOD
                          /\ last'.ret = RetStat(attr_cache[p][1].value)
                          /\ last'.queries = 0
                          /\ attr_cache' = attr_cache
                   /\ found = "expired" =>
                          /\ now - attr_cache[p][1].time >= ATTR_VALIDITY_PERIOD
                          /\ p # ROOT => last'.queries >= 1
                          /\ \/ /\ last'.ret = NotFound
                                /\ failAt \in 1..last'.queries
                                /\ attr_cache' = attr_cache
                             \/ /\ last'.ret.kind = "stat"
                                /\ Exists(db, p) =>
                                       last'.ret = RetStat(Descriptor(db, p))
                                /\ attr_cache'[p] =
                                       <<[value |-> last'.ret.val[1],
                                          time |-> now]>>]_vars

\* C6's case: an entry of a folder or file outlived the period and the path
\* was resolved anew
C6_Witness ==
    /\ last.op = "getattr"
    /\ last.path # ROOT
    /\ last.found = "expired"
    /\ last.queries >= 1
    /\ last.ret.kind = "stat"
    /\ last.ret.val[1].st_nlink > 0

\* C8: in a sequence of read calls on a path with no change of the file's
\* document in between, the binary content is fetched at most once: the first
\* read materializes it, every later read is served from the local copy.
C8_FetchedAtMostOnce ==
    \A p \in NormPaths : fetched[p] <= 1

\* C8's case: a read served from the local copy that an earlier read fetched
C8_Witness ==
    /\ last.op = "read"
    /\ last.ret.kind = "data"
    /\ last.fetches = 0
    /\ fetched[_normalize_path(last.path)] = 1

\* C9: if the content revision of a file changes after its content was
\* materialized, a later read(path) returns bytes of the current revision,
\* clamped against the current revision's length.
C9_RevisionChangeInvalidates ==
    [][\A p \in ReadPaths, size \in 0..MaxSize, offset \in 0..MaxOffset,
          failAt \in 0..2 :
           LET path == _normalize_path(p)
               file_doc == get_file(db, path)
           IN  (/\ read(p, size, offset, failAt)
                /\ last'.ret.kind = "data"
                /\ binary_cache[path] # <<>>
                /\ binary_cache[path][1].rev # file_doc[1].binary.rev)
                   => last'.ret.val =
                          FileRead(BinaryContent(file_doc[1].binary.rev),
                                   offset, size)]_vars

\* C10: readdir yields '.', then '..', then the names of the file listing,
\* then the names of the folder listing, and nothing in another order (an
\* escaping exception cuts the sequence short, it does not reorder it).
C10_ReaddirOrder ==
    last.op = "readdir" =>
        LET path == _normalize_path(last.path)
            dots == <<DOT, DOTDOT>>
            es == last.ret.val
        IN  /\ last.ret.kind \in {"entries", "raise"}
            /\ last.ret.kind = "entries" =>
                   es = dots \o Names(readdir_file_cache[path][1].value)
                             \o Names(readdir_folder_cache[path][1].value)
            /\ last.ret.kind = "raise" =>
                   \/ es = dots
                   \/ /\ readdir_file_cache[path] # <<>>
                      /\ es = dots \o Names(readdir_file_cache[path][1].value)

\* C10's case: a listing with a file name and a folder name
C10_Witness ==
    /\ last.op = "readdir"
    /\ last.ret.kind = "entries"
    /\ last.ret.val = <<DOT, DOTDOT, <<"f">>, <<"d">>>>

\* C11: every entry of every adapter cache is keyed by the normalized path
\* (the root, which the callbacks receive as '/', aside): no cache holds an
\* entry under a key that is not in normal form, so two path arguments with
\* the same normal form read and write the same entry.
C11_CacheKeysAreNormalized ==
    \A k \in CacheKeys :
        /\ attr_cache[k] # <<>> => (k = ROOT \/ k = _normalize_path(k))
        /\ readdir_file_cache[k] # <<>> => k = _normalize_path(k)
        /\ readdir_folder_cache[k] # <<>> => k = _normalize_path(k)
        /\ file_size_cache[k] # <<>> => k = _normalize_path(k)
        /\ binary_cache[k] # <<>> => k = _normalize_path(k)

\* C12: getattr('/') returns a directory descriptor with link count 2 in
\* every store state and after any sequence of prior calls, and resolving
\* the root issues no store query (so no store failure can reach it).
C12_RootIsAlwaysADirectory ==
    (last.op = "getattr" /\ last.path = ROOT) =>
        /\ last.ret.kind = "stat"
        /\ last.ret.val[1].st_mode = S_IFDIR + MODE_DIR
        /\ last.ret.val[1].st_nlink = 2
        /\ last.queries = 0

\* C12's case: the root resolved anew, its entry having expired, on the
\* empty store
C12_Witness ==
    /\ last.op = "getattr"
    /\ last.path = ROOT
    /\ last.found = "expired"
    /\ db.folders = {}
    /\ db.files = {}

\* C13: open(path) returns 0 exactly when the store's file-by-full-path
\* index holds a File record for the normalized path, and NotFound
\* otherwise, also for a path that exists only as a folder (and, the store
\* not answering, NotFound whatever it holds); open changes no cache.
C13_OpenFindsFileRecords ==
    [][\A p \in CallPaths, failAt \in 0..1 :
           open(p, failAt) =>
               LET held == \E d \in db.files :
                               d.path \o <<"/">> \o d.name = _normalize_path(p)
               IN  /\ failAt = 0 => (last'.ret = RetInt(0) <=> held)
                   /\ failAt = 0 => (last'.ret = NotFound <=> ~held)
                   /\ failAt = 1 => last'.ret = NotFound
                   /\ UNCHANGED caches]_vars

\* C13's case: open refused a path that exists only as a folder
C13_Witness ==
    /\ last.op = "open"
    /\ last.path = PATH_D
    /\ get_folder(db, PATH_D) # <<>>
    /\ get_file(db, PATH_D) = <<>>
    /\ last.ret = NotFound

\* C14: read-only invariant.  Whatever sequence of the seventeen callbacks
\* runs, no callback changes the Folder, File and Binary records of the
\* store, the write buffer map stays empty and the replication trigger is
\* never invoked.
C14_ReadOnly ==
    [][/\ db' = db
       /\ writeBuffers = {} /\ writeBuffers' = {}
       /\ replications = 0 /\ replications' = 0]_vars

\* C14's case: getattr, readdir and read have all done their work (their
\* caches are filled) and a mutating call was the last callback
C14_Witness ==
    /\ last.op \in {"write", "mknod", "unlink", "mkdir", "rmdir", "rename"}
    /\ attr_cache[PATH_F] # <<>>
    /\ readdir_file_cache[<<>>] # <<>>
    /\ binary_cache[PATH_F] # <<>>

\* C15, as amended: truncate is a stub that does nothing.  truncate(path,
\* size) returns success (0) for every path and size, and changes no cache,
\* no write buffer and not the store.
C15_TruncateIsANoop ==
    [][\A p \in CallPaths, size \in 0..MaxSize :
           truncate(p, size) =>
               /\ last'.ret = RetInt(0)
               /\ UNCHANGED <<caches, db, writeBuffers>>]_vars

\* C15, as stated: truncate fails with the permission-denied outcome, like
\* the other operations of the write path (which return EACCES), for every
\* path and size, and changes no cache or store state.
C15_TruncateDeniesPermission ==
    [][\A p \in CallPaths, size \in 0..MaxSize :
           truncate(p, size) =>
               /\ last'.ret \in {PermissionDenied, RetInt(EACCES)}
               /\ UNCHANGED <<caches, db, writeBuffers>>]_vars

\* C15's case: truncate of a file that the store holds
C15_Witness ==
    /\ last.op = "truncate"
    /\ last.path = PATH_F
    /\ get_file(db, PATH_F) # <<>>
    /\ last.ret = RetInt(0)

\* C16: the binary handle that read acquires is released on every exit
\* path: after any read call has returned, with data, with an empty result
\* or with an error raised while determining the length, seeking or
\* reading, no handle acquired by that call remains held.
C16_HandleReleased ==
    last.op = "read" => (last.acquired <= 1 /\ last.held = 0)

\* C16's case: a read that had acquired the handle ended in an error
C16_Witness ==
    /\ last.op = "read"
    /\ last.acquired = 1
    /\ last.ret = NotFound

\* C17: path normalization is idempotent and canonical.  For every path p,
\* normalize(normalize(p)) = normalize(p); the result has no empty segment
\* and no trailing slash; normalize('/a//b/') = '/a/b', and normalize('')
\* and normalize('/') are both ''.
C17_NormalizeIdempotentCanonical ==
    last.op = "_normalize_path" =>
        LET q == last.ret.val
        IN  /\ _normalize_path(q) = q
            /\ q # <<>> => (q[1] = "/" /\ q[Len(q)] # "/")
            /\ \A i \in 1..(Len(q) - 1) : ~(q[i] = "/" /\ q[i + 1] = "/")
            /\ last.path = <<"/", "a", "/", "/", "b", "/">>
                   => q = <<"/", "a", "/", "b">>
            /\ last.path \in {<<>>, <<"/">>} => q = <<>>

\* C17's case: '/a//b/' was normalized, to '/a/b'
C17_Witness ==
    /\ last.op = "_normalize_path"
    /\ last.path = <<"/", "a", "/", "/", "b", "/">>
    /\ last.ret.val = <<"/", "a", "/", "b">>

\* C18: release(path) returns success (0) in every state, whether or not
\* the path was opened or read before and whether or not it exists, and
\* changes no cache, no write buffer and not the store.
C18_ReleaseAlwaysSucceeds ==
    [][\A p \in CallPaths :
           release(p) =>
               /\ last'.ret = RetInt(0)
               /\ UNCHANGED <<caches, writeBuffers, db>>]_vars

\* C18's case: release of a path that was read and whose file has since
\* left the store
C18_Witness ==
    /\ last.op = "release"
    /\ last.path = PATH_F
    /\ binary_cache[PATH_F] # <<>>
    /\ get_file(db, PATH_F) = <<>>
    /\ last.ret = RetInt(0)

\* C19: on an attribute-cache miss for a non-root path (the store
\* answering), getattr decides folder first, then file.  If a Folder record
\* has the path, the result is a directory descriptor with link count 2
\* whose three timestamps are the folder's last-modification time, or zero
\* when the record has none; only if no Folder record and a File record has
\* it is the result a regular-file descriptor with link count 1, the File
\* record's size and the file's last-modification time as its timestamps.
C19_FolderThenFile ==
    [][\A p \in {last'.path} \ {ROOT} :
           (/\ last'.op = "getattr"
            /\ getattr(p, 0)
            /\ Found(attr_cache, ATTR_VALIDITY_PERIOD, p, now) # "fresh") =>
               LET folders == {d \in db.folders : d.path \o <<"/">> \o d.name = p}
                   files == {d \in db.files : d.path \o <<"/">> \o d.name = p}
                   st == last'.ret.val[1]
               IN  /\ folders # {} =>
                          \E d \in folders :
                              LET t == IF d.lastModification = <<>> THEN 0
                                       ELSE d.lastModification[1].epoch
                              IN  /\ last'.ret.kind = "stat"
                                  /\ st.st_mode = S_IFDIR + MODE_DIR
                                  /\ st.st_nlink = 2
                                  /\ st.st_atime = t
                                  /\ st.st_mtime = t
                                  /\ st.st_ctime = t
                   /\ (folders = {} /\ files # {}) =>
                          \E d \in files :
                              LET t == d.lastModification[1].epoch
                              IN  /\ last'.ret.kind = "stat"
                                  /\ st.st_mode = S_IFREG + MODE_FILE
                                  /\ st.st_nlink = 1
                                  /\ st.st_size = d.size[1]
                                  /\ st.st_atime = t
                                  /\ st.st_mtime = t
                                  /\ st.st_ctime = t]_vars

\* C19's case: a path that is both a folder and a file was resolved on a
\* miss, as a directory
C19_Witness ==
    /\ last.op = "getattr"
    /\ last.path = PATH_F
    /\ last.found # "fresh"
    /\ get_folder(db, PATH_F) # <<>>
    /\ get_file(db, PATH_F) # <<>>
    /\ last.ret.kind = "stat"
    /\ last.ret.val[1].st_nlink = 2

\* C20: with cold listing caches (and the store answering), readdir(path)
\* yields '.', '..' and then exactly the names of the File records and the
\* Folder records whose parent path is the normalized path, each record
\* once and no other name; for a folder that holds only files no folder
\* name is yielded.
C20_ColdReaddirListsChildren ==
    [][\A p \in ReaddirPaths :
           LET path == _normalize_path(p)
               files == {d \in db.files : d.path = path}
               folders == {d \in db.folders : d.path = path}
               es == last'.ret.val
           IN  (/\ readdir(p, 0)
                /\ readdir_file_cache[path] = <<>>
                /\ readdir_folder_cache[path] = <<>>) =>
                   /\ last'.ret.kind = "entries"
                   /\ Len(es) = 2 + Cardinality(files) + Cardinality(folders)
                   /\ es[1] = DOT
                   /\ es[2] = DOTDOT
                   /\ {es[i] : i \in 3..Len(es)}
                          = {d.name : d \in files} \cup {d.name : d \in folders}
                   /\ folders = {} =>
                          {es[i] : i \in 3..Len(es)} = {d.name : d \in files}]_vars

\* C20's case: the cold listing of /d, a folder that holds one file and no
\* folder, beside a file and a folder at the root that are not listed
C20_Witness ==
    /\ last.op = "readdir"
    /\ last.path = PATH_D
    /\ last.queries = 2
    /\ db.files = {FileDoc(1), NestedFile(1)}
    /\ last.ret = RetEntries(<<DOT, DOTDOT, <<"f">>>>)

\* C21: repeating readdir is idempotent with respect to the listing caches.
\* A readdir(path) consumed to its end while both listing entries of the path
\* are within their validity period issues no store query, leaves the caches
\* as they are and, coming after a complete readdir of the same path, yields
\* the entries that call yielded, also when a listing is empty.  The two
\* listing entries are looked up and refreshed on their own: a fresh entry
\* is neither queried again nor rewritten, and an expired or absent one is
\* queried again and written with the store's answer at the current time.
\* (The step is a readdir of the path in last', and a query raised in it
\* exactly when it ended in an exception, at the query counted last.)
C21_RepeatedReaddirHitsCaches ==
    [][\A p \in ReaddirPaths \cap {last'.path},
          failAt \in {IF last'.ret.kind = "raise" THEN last'.queries ELSE 0} :
           (last'.op = "readdir" /\ readdir(p, failAt)) =>
               LET path == _normalize_path(p)
                   fcached == cache_get(readdir_file_cache,
                                        ATTR_VALIDITY_PERIOD, path, now)
                   dcached == cache_get(readdir_folder_cache,
                                        ATTR_VALIDITY_PERIOD, path, now)
                   fq == IF fcached = <<>> THEN 1 ELSE 0
                   dq == IF dcached = <<>> THEN 1 ELSE 0
               IN  /\ (fcached # <<>> /\ dcached # <<>>) =>
                          /\ last'.queries = 0
                          /\ last'.ret.kind = "entries"
                          /\ UNCHANGED <<readdir_file_cache, readdir_folder_cache>>
                          /\ (/\ last.op = "readdir"
                              /\ _normalize_path(last.path) = path
                              /\ last.ret.kind = "entries") =>
                                 last'.ret = last.ret
                   /\ fcached # <<>> => UNCHANGED readdir_file_cache
                   /\ dcached # <<>> => UNCHANGED readdir_folder_cache
                   /\ last'.queries <= fq + dq
                   /\ failAt = 0 => last'.queries = fq + dq
                   /\ (fcached = <<>> /\ failAt # 1) =>
                          readdir_file_cache'[path] =
                              <<[value |-> view_file_byFolder(db, path),
                                 time |-> now]>>
                   /\ (dcached = <<>> /\ failAt = 0) =>
                          readdir_folder_cache'[path] =
                              <<[value |-> view_folder_byFolder(db, path),
                                 time |-> now]>>
      ]_vars

\* C21's case: a readdir that issued no query and yielded a listing whose
\* folder tier is empty, on a path whose file entry was queried again (it
\* had expired) at a time when the older folder entry was still fresh
C21_Witness ==
    /\ last.op = "readdir"
    /\ last.ret.kind = "entries"
    /\ last.queries = 0
    /\ LET path == _normalize_path(last.path)
       IN  /\ readdir_file_cache[path] # <<>>
           /\ readdir_folder_cache[path] # <<>>
           /\ readdir_folder_cache[path][1].value = <<>>
           /\ readdir_folder_cache[path][1].time > 0
           /\ readdir_file_cache[path][1].time
                  > readdir_folder_cache[path][1].time


\* C22: a getattr that ends in a store failure (a store query raised, the
\* call returned -ENOENT) adds no entry to the attribute cache and leaves
\* every existing entry as it was; the next getattr for that path, with no
\* other callback in between, finds no fresh entry and queries the store
\* again: it does not return a cached failure.
C22_FailedGetattrNotCached ==
    [][\A p \in CallPaths \cap {last'.path}, failAt \in 0..2 :
           (last'.op = "getattr" /\ getattr(p, failAt)) =>
               /\ failAt > 0 =>
                      /\ last'.ret = RetInt(-ENOENT)
                      /\ last'.queries = failAt
                      /\ attr_cache' = attr_cache
               /\ (/\ last.op = "getattr"
                   /\ last.path = p
                   /\ last.ret = RetInt(-ENOENT)) =>
                      /\ Found(attr_cache, ATTR_VALIDITY_PERIOD, p, now)
                             # "fresh"
                      /\ last'.found # "fresh"
                      /\ last'.queries >= 1
                      /\ failAt = 0 =>
                             /\ last'.ret.kind = "stat"
                             /\ attr_cache'[p] = <<[value |-> last'.ret.val[1],
                                                    time |-> now]>>
      ]_vars

\* C22's case: a getattr ended in a store failure on a path whose older
\* entry had expired, while another path has an entry; both entries are
\* still in the cache
C22_Witness ==
    /\ last.op = "getattr"
    /\ last.ret = RetInt(-ENOENT)
    /\ last.queries >= 1
    /\ last.found = "expired"
    /\ attr_cache[last.path] # <<>>
    /\ attr_cache[last.path][1].time < now
    /\ \E k \in CallPaths \ {last.path} : attr_cache[k] # <<>>

============================================================================
